---- MODULE Spec2Model ----
(***************************************************************************)
(* mbtalerts: mirroring of MBTA alerts into a Google calendar.             *)
(*                                                                         *)
(* The model follows src/src/calendar.rs (sync_alerts and the calendar     *)
(* client), src/src/lambda.rs (handler) and src/src/lib.rs (alerts,        *)
(* line_name).  A run is one invocation of handler: fetch the feed, list   *)
(* the tagged events page by page, then create/update one event per live   *)
(* alert and delete the events of the alerts that disappeared.             *)
(*                                                                         *)
(* Option<T> is modelled as a sequence of length 0 (None) or 1 (Some).     *)
(* Alert ids and event ids are strings in the code; here both are          *)
(* integers, so that an event id can coincide with an alert id.            *)
(***************************************************************************)
EXTENDS Integers, Sequences, FiniteSets, TLC

VARIABLES
    calendar,   \* the remote calendar: sequence of stored events [id, body]
    next_id,    \* the id the calendar service gives to the next created event
    today,      \* the UTC wall-clock date, <<year, month, day>>
    days,       \* how many times the date has advanced (bounded)
    passes,     \* how many runs have been started (bounded)
    pc,         \* per run: "init", "list", "sync", "ok", "err"
    alerts,     \* per run: the feed (Alerts.data) this run fetched
    existing,   \* per run: events accumulated by list_alert_events
    page_token, \* per run: Option<offset> of the next page to ask for
    existing_by_alert_id, \* per run: the alert id -> event id mapping
    seen,       \* per run: alert ids recorded as seen
    idx,        \* per run: position of the `for alert in &alerts.data` loop
    visited,    \* per run: mapping keys the delete loop has gone through
    calls,      \* per run: history of the create/update/delete calls issued
    failed_at,  \* per run: where the run failed ("" while it has not)
    start_cal,  \* per run: history, the calendar when the run started
    prev,       \* history: summary of the run that ended before this one
    input,      \* the alert that the mapper's functions are applied to
    output      \* the results of these applications, in order

vars == <<calendar, next_id, today, days, passes, pc, alerts, existing,
          page_token, existing_by_alert_id, seen, idx, visited, calls,
          failed_at, start_cal, prev, input, output>>

-----------------------------------------------------------------------------
(* Bounds *)

MaxPasses == 3      \* runs started in one behaviour
MaxDays == 1        \* times the wall-clock date advances
PageSize == 2       \* events the calendar service returns per page
MaxCalls == 2       \* applications of the mapper's functions to one alert

None == <<>>
Some(x) == <<x>>

Min(a, b) == IF a < b THEN a ELSE b

Range(s) == {s[k] : k \in 1..Len(s)}

\* The runs.  Spec lets run slot 1 act only: passes are sequential.
AllRuns == {1, 2}
Runs == {1}

-----------------------------------------------------------------------------
(* Dates: chrono::NaiveDate and next_date *)

IsLeap(y) == (y % 4 = 0 /\ y % 100 # 0) \/ y % 400 = 0

DaysInMonth(y, m) ==
    IF m = 2 THEN (IF IsLeap(y) THEN 29 ELSE 28)
    ELSE IF m \in {4, 6, 9, 11} THEN 30 ELSE 31

\* NaiveDate::parse_from_str(date, "%Y-%m-%d") succeeds
IsValidDate(d) ==
    /\ d[2] \in 1..12
    /\ d[3] \in 1..DaysInMonth(d[1], d[2])

\* d + chrono::Duration::days(1)
PlusOneDay(d) ==
    IF d[3] < DaysInMonth(d[1], d[2]) THEN <<d[1], d[2], d[3] + 1>>
    ELSE IF d[2] < 12 THEN <<d[1], d[2] + 1, 1>>
    ELSE <<d[1] + 1, 1, 1>>

\* Variant of next_date: the day number goes up, the month never changes.
next_date_within_month(date) ==
    IF IsValidDate(date) THEN <<date[1], date[2], date[3] + 1>> ELSE date

next_date(date) == IF IsValidDate(date) THEN PlusOneDay(date) ELSE date

\* The date the clock starts on: the day before a leap day
FirstDay == <<2024, 2, 28>>

-----------------------------------------------------------------------------
(* Text: a Rust &str is its UTF-8 bytes.  A byte below 0x80 is written as the
   character it encodes, any other byte as "x" and its two hex digits.  Indices
   are byte offsets counted from 0, as in the code. *)

\* The bytes of a string literal of the code (every literal is ASCII)
utf8 == [s \in STRING |-> [i \in 1..Len(s) |-> SubSeq(s, i, i)]]

\* Characters outside ASCII, as their bytes
e_acute == <<"xC3", "xA9">>             \* U+00E9
right_quote == <<"xE2", "x80", "x99">>  \* U+2019
en_dash == <<"xE2", "x80", "x93">>      \* U+2013

\* The bytes 0x80..0xBF, which continue a character
ContinuationBytes == {"xA9", "x80", "x99", "x93"}

\* What a panic leaves in place of a result
Panic == <<"panic">>

\* str::is_char_boundary
is_char_boundary(s, index) ==
    \/ index = 0
    \/ index = Len(s)
    \/ index < Len(s) /\ s[index + 1] \notin ContinuationBytes

\* &s[from..to] and &s[from..]
slice(s, from, to) == SubSeq(s, from + 1, to)
slice_from(s, from) == SubSeq(s, from + 1, Len(s))

\* str::find: the byte offset of the first match, as an Option
find(s, pat) ==
    LET matches == {i \in 0..(Len(s) - Len(pat)) : SubSeq(s, i + 1, i + Len(pat)) = pat}
    IN IF matches = {} THEN None
       ELSE Some(CHOOSE i \in matches : \A j \in matches : i <= j)

contains(s, pat) == find(s, pat) # None

\* char::is_whitespace, for the white space the inputs contain
Whitespace == {" ", "\t"}

RECURSIVE trim_start(_)
trim_start(s) ==
    IF s # <<>> /\ Head(s) \in Whitespace THEN trim_start(Tail(s)) ELSE s

RECURSIVE trim_end_matches(_, _)
trim_end_matches(s, chars) ==
    IF s # <<>> /\ s[Len(s)] \in chars
    THEN trim_end_matches(SubSeq(s, 1, Len(s) - 1), chars)
    ELSE s

-----------------------------------------------------------------------------
(* The feed: types.rs Alert, and the alerts the model draws feeds from *)

ts1 == [date |-> <<2024, 6, 1>>, time |-> "T09:00:00-04:00"]
ts2 == [date |-> <<2024, 6, 1>>, time |-> "T23:00:00-04:00"]
ts3 == [date |-> <<2024, 12, 31>>, time |-> "T05:00:00-05:00"]

Alert(id, route, header, description, effect, periods) ==
    [id |-> id,
     attributes |->
        [header |-> header,
         description |-> description,
         active_period |-> periods,
         effect |-> effect,
         informed_entity |-> <<[route |-> None], [route |-> Some(route)]>>]]

Period(s, e) == [start |-> s, end |-> e]

\* The versions of each alert a feed can carry.  An alert keeps its id while
\* its effect and its active periods change from one fetch to the next.
AlertPool ==
    { Alert(1, "Red", utf8["Red Line: Delays"], Some("Signal problem"),
            "DELAY", <<Period(Some(ts1), Some(ts2)), Period(Some(ts3), None)>>),
      Alert(1, "Red", utf8["Red Line: Delays"], Some("Signal problem"),
            "DELAY", <<>>),
      Alert(1, "Red", utf8["Red Line: Elevator closed"], None,
            "STATION_ISSUE", <<>>),
      Alert(1, "Red", utf8["Red Line: Stop closed"], None,
            "STOP_CLOSURE", <<>>),
      Alert(2, "Green-D", utf8["Shuttle buses between Kenmore and Riverside"], None,
            "SHUTTLE", <<Period(Some(ts3), None)>>),
      Alert(2, "Green-D", utf8["Station closed"], None,
            "STATION_CLOSURE", <<>>) }

\* An alert of an earlier feed, no longer in any feed
ResolvedAlert ==
    Alert(3, "Orange", utf8["Orange Line: Detour at Ruggles"], None,
          "DETOUR", <<Period(Some(ts1), Some(ts2))>>)

AlertIds == {a.id : a \in AlertPool}

Ids(feed) == {feed[k].id : k \in 1..Len(feed)}

\* A feed: alerts with distinct ids (an id is unique within a fetch), in any order.
Feeds ==
    {f \in UNION {[1..n -> AlertPool] : n \in 0..Cardinality(AlertIds)} :
        Cardinality(Ids(f)) = Len(f)}

-----------------------------------------------------------------------------
(* lib.rs: line_name *)

StartsWithGreen(route) ==
    route \in {"Green", "Green-B", "Green-C", "Green-D", "Green-E"}

RECURSIVE line_name_from(_, _)
line_name_from(entities, k) ==
    IF k > Len(entities) THEN "MBTA"
    ELSE IF entities[k].route = None THEN line_name_from(entities, k + 1)
    ELSE LET route == entities[k].route[1] IN
         IF route = "Red" THEN "Red Line"
         ELSE IF route = "Orange" THEN "Orange Line"
         ELSE IF StartsWithGreen(route) THEN "Green Line"
         ELSE "MBTA"

line_name(alert) == line_name_from(alert.attributes.informed_entity, 1)

-----------------------------------------------------------------------------
(* calendar.rs: the event payload *)

strip_line_prefix(header) ==
    LET colon_idx == find(header, utf8[": "]) IN
    IF /\ colon_idx # None
       /\ LET prefix == slice(header, 0, colon_idx[1])
          IN contains(prefix, utf8["Line"]) /\ Len(prefix) <= 35
    THEN trim_start(slice_from(header, colon_idx[1] + 2))
    ELSE trim_start(header)

\* `content[scan_from..end]` panics when scan_from is not a char boundary; end
\* is the length or the offset of a match, which is one.
brief_content(content) ==
    LET to_allow == find(content, utf8[" to allow"])
        in_order_to == find(content, utf8[" in order to"])
        end0 == Len(content)
        end1 == IF to_allow # None THEN Min(end0, to_allow[1]) ELSE end0
        end2 == IF in_order_to # None THEN Min(end1, in_order_to[1]) ELSE end1
        scan_from == Min(30, end2)
        rel_idx == find(slice(content, scan_from, end2), utf8[", "])
        end == IF rel_idx # None THEN scan_from + rel_idx[1] ELSE end2
    IN IF ~is_char_boundary(content, scan_from) THEN Panic
       ELSE trim_end_matches(slice(content, 0, end), {".", ",", " "})

LOCATION_STOP_MARKERS ==
    <<utf8[", "], utf8[" will "], utf8[" this "], utf8[" that "], utf8[" from "],
      utf8[" to allow"], utf8[" in order"], utf8[" starting"], utf8[" during"]>>

\* Variant of location_phrase: a " from " is taken without asking for a
\* " through " after it.
location_phrase_any_from(content) ==
    LET between == find(content, utf8[" between "])
        from == find(content, utf8[" from "])
        fragment ==
            IF between # None THEN Some(slice_from(content, between[1] + 1))
            ELSE IF from # None THEN Some(slice_from(content, from[1] + 1))
            ELSE None
    IN IF fragment = None THEN None
       ELSE LET found == {find(fragment[1], LOCATION_STOP_MARKERS[m])[1] :
                            m \in {n \in DOMAIN LOCATION_STOP_MARKERS :
                                      find(fragment[1], LOCATION_STOP_MARKERS[n]) # None}}
                end == IF found = {} THEN Len(fragment[1])
                       ELSE CHOOSE x \in found : \A y \in found : x <= y
                phrase == trim_end_matches(slice(fragment[1], 0, end), {".", ",", " "})
            IN IF phrase = <<>> THEN None ELSE Some(phrase)

\* Option<String>
location_phrase(content) ==
    LET between == find(content, utf8[" between "])
        from == find(content, utf8[" from "])
        fragment ==
            IF between # None THEN Some(slice_from(content, between[1] + 1))
            ELSE IF from # None
            THEN LET candidate == slice_from(content, from[1] + 1)
                 IN IF ~contains(candidate, utf8[" through "]) THEN None
                    ELSE Some(candidate)
            ELSE None
    IN IF fragment = None THEN None
       ELSE LET found == {find(fragment[1], LOCATION_STOP_MARKERS[m])[1] :
                            m \in {n \in DOMAIN LOCATION_STOP_MARKERS :
                                      find(fragment[1], LOCATION_STOP_MARKERS[n]) # None}}
                end == IF found = {} THEN Len(fragment[1])
                       ELSE CHOOSE x \in found : \A y \in found : x <= y
                phrase == trim_end_matches(slice(fragment[1], 0, end), {".", ",", " "})
            IN IF phrase = <<>> THEN None ELSE Some(phrase)

effect_label(effect) ==
    CASE effect = "SHUTTLE" -> "Shuttle"
      [] effect = "DELAY" -> "Delay"
      [] effect = "SUSPENSION" -> "Suspension"
      [] effect = "SERVICE_CHANGE" -> "Service change"
      [] effect = "SCHEDULE_CHANGE" -> "Schedule change"
      [] effect = "DETOUR" -> "Detour"
      [] OTHER -> effect

\* The title, or Panic when brief_content panics
event_summary(alert) ==
    LET line == utf8[line_name(alert)]
        content == strip_line_prefix(alert.attributes.header)
        loc == location_phrase(content)
    IN IF loc # None
       THEN utf8["["] \o line \o utf8["] "]
              \o utf8[effect_label(alert.attributes.effect)] \o utf8[" "] \o loc[1]
       ELSE LET brief == brief_content(content)
            IN IF brief = Panic THEN Panic
               ELSE utf8["["] \o line \o utf8["] "] \o brief

\* event_summary of the alerts of the feeds, computed once
summaries == [alert \in AlertPool \cup {ResolvedAlert} |-> event_summary(alert)]

\* Variant of event_times: the open-ended case falls into the last arm.
event_times_open_is_today(start, end, now) ==
    IF start # None /\ end # None
    THEN <<[dateTime |-> start[1]], [dateTime |-> end[1]]>>
    ELSE <<[date |-> now], [date |-> next_date(now)]>>

\* start, end: Option<timestamp>; now: what chrono::Utc::now() gives as a date
event_times(start, end, now) ==
    IF start # None /\ end # None
    THEN <<[dateTime |-> start[1]], [dateTime |-> end[1]]>>
    ELSE IF start # None
    THEN LET date == start[1].date  \* s.get(..10)
         IN <<[date |-> date], [date |-> next_date(date)]>>
    ELSE <<[date |-> now], [date |-> next_date(now)]>>

first(list) == IF Len(list) = 0 THEN None ELSE Some(list[1])

\* Variant of event_body: the marker mbta_alert_source is left out of the
\* private properties.
event_body_without_source(alert, now) ==
    LET period == first(alert.attributes.active_period)
        start == IF period = None THEN None ELSE period[1].start
        end == IF period = None THEN None ELSE period[1].end
        times == event_times(start, end, now)
    IN [summary |-> IF alert \in DOMAIN summaries THEN summaries[alert]
                    ELSE event_summary(alert),
        description |-> alert.attributes.description,
        start |-> times[1],
        end |-> times[2],
        extendedProperties |-> [private |-> [mbta_alert_id |-> alert.id]]]

event_body(alert, now) ==
    LET period == first(alert.attributes.active_period)
        start == IF period = None THEN None ELSE period[1].start
        end == IF period = None THEN None ELSE period[1].end
        times == event_times(start, end, now)
    IN [summary |-> IF alert \in DOMAIN summaries THEN summaries[alert]
                    ELSE event_summary(alert),
        description |-> alert.attributes.description,
        start |-> times[1],
        end |-> times[2],
        extendedProperties |->
            [private |-> [mbta_alert_source |-> "true",
                          mbta_alert_id |-> alert.id]]]

-----------------------------------------------------------------------------
(* calendar.rs: events as the calendar stores them and as the client reads them *)

\* serde: the stored JSON event as a CalendarEvent
CalendarEvent(ev) ==
    [id |-> ev.id,
     extended_properties |->
        IF "extendedProperties" \in DOMAIN ev.body
        THEN Some([private |->
                IF "private" \in DOMAIN ev.body.extendedProperties
                THEN Some(ev.body.extendedProperties.private)
                ELSE None])
        ELSE None]

\* Variant of alert_id: an event without the tag is taken to belong to the
\* alert whose id is the event's own id.
alert_id_or_event_id(event) ==
    IF event.extended_properties = None THEN Some(event.id)
    ELSE IF event.extended_properties[1].private = None THEN Some(event.id)
    ELSE LET private == event.extended_properties[1].private[1] IN
         IF "mbta_alert_id" \in DOMAIN private
         THEN Some(private["mbta_alert_id"])
         ELSE Some(event.id)

\* CalendarEvent::alert_id
alert_id(event) ==
    IF event.extended_properties = None THEN None
    ELSE IF event.extended_properties[1].private = None THEN None
    ELSE LET private == event.extended_properties[1].private[1] IN
         IF "mbta_alert_id" \in DOMAIN private
         THEN Some(private["mbta_alert_id"])
         ELSE None

\* The service's filter privateExtendedProperty=mbta_alert_source=true
MatchesFilter(ev) ==
    /\ "extendedProperties" \in DOMAIN ev.body
    /\ "private" \in DOMAIN ev.body.extendedProperties
    /\ "mbta_alert_source" \in DOMAIN ev.body.extendedProperties.private
    /\ ev.body.extendedProperties.private["mbta_alert_source"] = "true"

RECURSIVE Filter(_)
Filter(evs) ==
    IF evs = <<>> THEN <<>>
    ELSE IF MatchesFilter(Head(evs)) THEN <<Head(evs)>> \o Filter(Tail(evs))
    ELSE Filter(Tail(evs))

\* Events of other origin, present before the tool ever ran.  None carries the
\* mbta_alert_id tag; their ids and titles coincide with alert ids.  Event ids
\* are 0, 1, 2, ... in the order of creation.
ForeignNoPrivate ==
    [id |-> 0, body |-> [summary |-> "0", extendedProperties |-> [shared |-> "x"]]]
ForeignPlain == [id |-> 1, body |-> [summary |-> "1"]]
ForeignSourceOnly ==
    [id |-> 2,
     body |-> [summary |-> "2",
               extendedProperties |-> [private |-> [mbta_alert_source |-> "true"]]]]

\* The event an earlier run wrote for the alert that is no longer in any feed
LeftoverEvent == [id |-> 3, body |-> event_body(ResolvedAlert, <<2024, 2, 27>>)]

InitialCalendars ==
    { <<>>, <<ForeignNoPrivate, ForeignPlain, ForeignSourceOnly, LeftoverEvent>> }

-----------------------------------------------------------------------------
(* The calendar service: events.insert, events.update (PUT), events.delete *)

EventIds(cal) == {cal[k].id : k \in 1..Len(cal)}

RemoteInsert(cal, id, body) == Append(cal, [id |-> id, body |-> body])

RemoteUpdate(cal, event_id, body) ==
    [k \in 1..Len(cal) |->
        IF cal[k].id = event_id THEN [id |-> event_id, body |-> body] ELSE cal[k]]

RECURSIVE RemoteDelete(_, _)
RemoteDelete(cal, event_id) ==
    IF cal = <<>> THEN <<>>
    ELSE IF Head(cal).id = event_id THEN RemoteDelete(Tail(cal), event_id)
    ELSE <<Head(cal)>> \o RemoteDelete(Tail(cal), event_id)

\* How a request can end: "ok"; "err", an error (no token, transport error, error
\* status) with the calendar untouched; "lost", the service applied the request
\* and the response never arrived, which the client sees as an error too.
\* A request addressed to an event that is not there gets an error status.
Outcomes(cal, req) ==
    IF req.op = "create" \/ req.event_id[1] \in EventIds(cal)
    THEN {"ok", "err", "lost"}
    ELSE {"err"}

Apply(cal, id, req, outcome) ==
    IF outcome = "err" THEN cal
    ELSE IF req.op = "create" THEN RemoteInsert(cal, id, req.body[1])
    ELSE IF req.op = "update" THEN RemoteUpdate(cal, req.event_id[1], req.body[1])
    ELSE RemoteDelete(cal, req.event_id[1])

\* Variant of the paging loop: a failed page ends the listing as if it were
\* the last page (`unwrap_or_default()` in place of `?`).
list_page_lenient(cal, token, outcome) ==
    LET all == Filter(cal)
        from == IF token = None THEN 0 ELSE token[1]
        to == Min(from + PageSize, Len(all))
    IN IF outcome = "err"
       THEN [err |-> FALSE, items |-> <<>>, next_page_token |-> None]
       ELSE [err |-> FALSE,
             items |-> SubSeq(all, from + 1, to),
             next_page_token |-> IF to < Len(all) THEN Some(to) ELSE None]

\* One page of GET events?privateExtendedProperty=mbta_alert_source=true
\* (calendar.rs 115-132); token is Option<offset>.
list_page(cal, token, outcome) ==
    LET all == Filter(cal)
        from == IF token = None THEN 0 ELSE token[1]
        to == Min(from + PageSize, Len(all))
    IN IF outcome = "err"
       THEN [err |-> TRUE, items |-> <<>>, next_page_token |-> None]
       ELSE [err |-> FALSE,
             items |-> SubSeq(all, from + 1, to),
             next_page_token |-> IF to < Len(all) THEN Some(to) ELSE None]

-----------------------------------------------------------------------------
(* calendar.rs: sync_alerts *)

STATION_EFFECTS_TO_SKIP == {"STATION_ISSUE", "STOP_CLOSURE", "STATION_CLOSURE"}

IsSkipped(alert) == alert.attributes.effect \in STATION_EFFECTS_TO_SKIP

\* Variant of the mapping: insert(event.id, event.id), keyed by the event.
build_existing_by_event_id(events) ==
    LET evs == [k \in 1..Len(events) |-> CalendarEvent(events[k])]
        tagged == {k \in 1..Len(evs) : alert_id(evs[k]) # None}
    IN [e \in {evs[k].id : k \in tagged} |-> e]

\* Variant of the mapping: the first event with a tag is kept
\* (`entry(..).or_insert(..)` in place of `insert`).
build_existing_by_first_alert_id(events) ==
    LET evs == [k \in 1..Len(events) |-> CalendarEvent(events[k])]
        tagged == {k \in 1..Len(evs) : alert_id(evs[k]) # None}
        keys == {alert_id(evs[k])[1] : k \in tagged}
        first_of(a) == CHOOSE k \in tagged :
                          /\ alert_id(evs[k]) = Some(a)
                          /\ \A j \in tagged : alert_id(evs[j]) = Some(a) => k <= j
    IN [a \in keys |-> evs[first_of(a)].id]

\* lines 166-171: insert in list order, so the last event with a tag wins
build_existing_by_alert_id(events) ==
    LET evs == [k \in 1..Len(events) |-> CalendarEvent(events[k])]
        tagged == {k \in 1..Len(evs) : alert_id(evs[k]) # None}
        keys == {alert_id(evs[k])[1] : k \in tagged}
        last(a) == CHOOSE k \in tagged :
                      /\ alert_id(evs[k]) = Some(a)
                      /\ \A j \in tagged : alert_id(evs[j]) = Some(a) => j <= k
    IN [a \in keys |-> evs[last(a)].id]

\* Variant of the upsert: the mapping is not consulted, every alert is created.
upsert_request_create_only(map, alert, now) ==
    [op |-> "create", alert_id |-> alert.id,
     event_id |-> None, body |-> Some(event_body(alert, now))]

\* Variant of the upsert: the update goes to some mapped event, not
\* necessarily the one mapped to this alert's id.
upsert_request_any_event(map, alert, now) ==
    IF DOMAIN map # {}
    THEN [op |-> "update", alert_id |-> alert.id,
          event_id |-> Some(map[CHOOSE a \in DOMAIN map : \A b \in DOMAIN map : a <= b]),
          body |-> Some(event_body(alert, now))]
    ELSE [op |-> "create", alert_id |-> alert.id,
          event_id |-> None, body |-> Some(event_body(alert, now))]

\* lines 184-190: the request issued for a live alert
upsert_request(map, alert, now) ==
    IF alert.id \in DOMAIN map
    THEN [op |-> "update", alert_id |-> alert.id,
          event_id |-> Some(map[alert.id]), body |-> Some(event_body(alert, now))]
    ELSE [op |-> "create", alert_id |-> alert.id,
          event_id |-> None, body |-> Some(event_body(alert, now))]

\* lines 194-197: the request issued for a mapping entry that was not seen
delete_request(map, a) ==
    [op |-> "delete", alert_id |-> a, event_id |-> Some(map[a]), body |-> None]

\* Variant of the delete loop's test: without `!seen.contains(alert_id)`.
stale_keys_unchecked(map, seen_ids) == DOMAIN map

\* lines 194-195: the mapping entries the delete loop acts on
stale_keys(map, seen_ids) == {a \in DOMAIN map : a \notin seen_ids}

\* Variant of the error handling: the result of a call is dropped (`.ok()`)
\* and the loop goes on.
PropagatesNothing(outcome) == FALSE

\* the `?` after each call: an error ends sync_alerts at once
Propagates(outcome) == outcome # "ok"

NoPrev ==
    [ok |-> FALSE, failed_call |-> FALSE, same |-> FALSE, chain |-> 0, removed |-> {}]

\* History kept when run p starts over, about the run that has just ended and
\* the feed of the new one: whether that run completed or ended on a failed
\* create, update or delete; whether the new feed holds the same alerts; and
\* chain, the step of a round trip that the new run is: 2 when the run before
\* completed from an empty mapping over live alerts only and the new feed holds
\* the same alerts, 3 when the run before was step 2 and the new feed holds
\* the same alerts less one (removed: the id of that one).
Summary(p, feed) ==
    LET ok == pc[p] = "ok"
        failed_call == pc[p] = "err" /\ failed_at[p] = "call"
        same == (ok \/ failed_call) /\ Range(feed) = Range(alerts[p])
        from_empty == /\ ok
                      /\ DOMAIN existing_by_alert_id[p] = {}
                      /\ \A k \in 1..Len(alerts[p]) : ~IsSkipped(alerts[p][k])
        chain == IF from_empty /\ same THEN 2
                 ELSE IF /\ ok
                         /\ prev.chain = 2
                         /\ Range(feed) \subseteq Range(alerts[p])
                         /\ Len(feed) + 1 = Len(alerts[p])
                 THEN 3
                 ELSE 0
    IN [ok |-> ok, failed_call |-> failed_call, same |-> same, chain |-> chain,
        removed |-> IF chain = 3 THEN Ids(alerts[p]) \ Ids(feed) ELSE {}]

Init ==
    /\ calendar \in InitialCalendars
    /\ next_id = Len(calendar)
    /\ today = FirstDay
    /\ days = 0
    /\ passes = 0
    /\ pc = [p \in AllRuns |-> "init"]
    /\ alerts = [p \in AllRuns |-> <<>>]
    /\ existing = [p \in AllRuns |-> <<>>]
    /\ page_token = [p \in AllRuns |-> None]
    /\ existing_by_alert_id = [p \in AllRuns |-> <<>>]
    /\ seen = [p \in AllRuns |-> {}]
    /\ idx = [p \in AllRuns |-> 1]
    /\ visited = [p \in AllRuns |-> {}]
    /\ calls = [p \in AllRuns |-> <<>>]
    /\ failed_at = [p \in AllRuns |-> ""]
    /\ start_cal = [p \in AllRuns |-> <<>>]
    /\ prev = NoPrev
    /\ input = <<>>
    /\ output = <<>>

\* lambda.rs 16-20 (main.rs 115-119): fetch and parse the feed, build the
\* client, enter sync_alerts.  Either of the first two can fail.
handler(p) ==
    /\ pc[p] \in {"init", "ok", "err"}
    /\ passes < MaxPasses
    /\ passes' = passes + 1
    /\ existing' = [existing EXCEPT ![p] = <<>>]
    /\ page_token' = [page_token EXCEPT ![p] = None]
    /\ existing_by_alert_id' = [existing_by_alert_id EXCEPT ![p] = <<>>]
    /\ seen' = [seen EXCEPT ![p] = {}]
    /\ idx' = [idx EXCEPT ![p] = 1]
    /\ visited' = [visited EXCEPT ![p] = {}]
    /\ calls' = [calls EXCEPT ![p] = <<>>]
    /\ start_cal' = [start_cal EXCEPT ![p] = calendar]
    /\ UNCHANGED <<calendar, next_id, today, days, input, output>>
    /\ \/ \E feed \in Feeds :
            /\ alerts' = [alerts EXCEPT ![p] = feed]
            /\ prev' = IF pc[p] = "init" THEN prev ELSE Summary(p, feed)
            /\ pc' = [pc EXCEPT ![p] = "list"]
            /\ failed_at' = [failed_at EXCEPT ![p] = ""]
       \/ \E stage \in {"feed", "env"} :
            /\ alerts' = [alerts EXCEPT ![p] = <<>>]
            /\ prev' = NoPrev
            /\ pc' = [pc EXCEPT ![p] = "err"]
            /\ failed_at' = [failed_at EXCEPT ![p] = stage]

\* calendar.rs 109-136 and 164-173: one round of the paging loop; after the
\* last page sync_alerts builds the mapping and starts with nothing seen.
list_alert_events(p) ==
    /\ pc[p] = "list"
    /\ \E outcome \in {"ok", "err"} :
        LET page == list_page(calendar, page_token[p], outcome)
            events == existing[p] \o page.items
        IN IF page.err
           THEN /\ pc' = [pc EXCEPT ![p] = "err"]
                /\ failed_at' = [failed_at EXCEPT ![p] = "list"]
                /\ UNCHANGED <<existing, page_token, existing_by_alert_id>>
           ELSE /\ existing' = [existing EXCEPT ![p] = events]
                /\ page_token' = [page_token EXCEPT ![p] = page.next_page_token]
                /\ IF page.next_page_token = None
                   THEN /\ pc' = [pc EXCEPT ![p] = "sync"]
                        /\ existing_by_alert_id' =
                             [existing_by_alert_id EXCEPT
                                ![p] = build_existing_by_alert_id(events)]
                   ELSE UNCHANGED <<pc, existing_by_alert_id>>
                /\ UNCHANGED failed_at
    /\ UNCHANGED <<calendar, next_id, today, days, passes, alerts, seen, idx,
                   visited, calls, start_cal, prev, input, output>>

\* History: a request and how it ended.
Call(req, outcome) ==
    [op |-> req.op, alert_id |-> req.alert_id, event_id |-> req.event_id,
     body |-> req.body, outcome |-> outcome]

\* One request and what follows it: the service acts (or not), the call is
\* recorded, and an error ends the run.
Issue(p, req, outcome) ==
    /\ calendar' = Apply(calendar, next_id, req, outcome)
    /\ next_id' = IF req.op = "create" /\ outcome # "err" THEN next_id + 1 ELSE next_id
    /\ calls' = [calls EXCEPT ![p] = Append(@, Call(req, outcome))]
    /\ IF Propagates(outcome)
       THEN /\ pc' = [pc EXCEPT ![p] = "err"]
            /\ failed_at' = [failed_at EXCEPT ![p] = "call"]
       ELSE UNCHANGED <<pc, failed_at>>

\* calendar.rs 175-192: one round of `for alert in &alerts.data`
sync_alerts_upsert(p) ==
    /\ pc[p] = "sync"
    /\ idx[p] <= Len(alerts[p])
    /\ LET alert == alerts[p][idx[p]] IN
        IF IsSkipped(alert)
        THEN /\ idx' = [idx EXCEPT ![p] = @ + 1]
             /\ UNCHANGED <<calendar, next_id, calls, pc, failed_at, seen>>
        ELSE LET req == upsert_request(existing_by_alert_id[p], alert, today) IN
             \E outcome \in Outcomes(calendar, req) :
                /\ Issue(p, req, outcome)
                /\ IF Propagates(outcome)
                   THEN UNCHANGED <<seen, idx>>
                   ELSE /\ seen' = [seen EXCEPT ![p] = @ \cup {alert.id}]
                        /\ idx' = [idx EXCEPT ![p] = @ + 1]
    /\ UNCHANGED <<today, days, passes, alerts, existing, page_token,
                   existing_by_alert_id, visited, start_cal, prev, input, output>>

\* calendar.rs 194-199: one round of the loop over the mapping, whose order is
\* the HashMap's; entries that were seen are passed over.
sync_alerts_delete(p) ==
    /\ pc[p] = "sync"
    /\ idx[p] > Len(alerts[p])
    /\ \E a \in stale_keys(existing_by_alert_id[p], seen[p]) \ visited[p] :
        LET req == delete_request(existing_by_alert_id[p], a) IN
        \E outcome \in Outcomes(calendar, req) :
            /\ Issue(p, req, outcome)
            /\ visited' = [visited EXCEPT ![p] = @ \cup {a}]
    /\ UNCHANGED <<today, days, passes, alerts, existing, page_token,
                   existing_by_alert_id, seen, idx, start_cal, prev, input, output>>

\* calendar.rs 201: Ok(())
sync_alerts_return(p) ==
    /\ pc[p] = "sync"
    /\ idx[p] > Len(alerts[p])
    /\ stale_keys(existing_by_alert_id[p], seen[p]) \subseteq visited[p]
    /\ pc' = [pc EXCEPT ![p] = "ok"]
    /\ UNCHANGED <<calendar, next_id, today, days, passes, alerts, existing,
                   page_token, existing_by_alert_id, seen, idx, visited, calls,
                   failed_at, start_cal, prev, input, output>>

\* Midnight UTC passes.
Tick ==
    /\ days < MaxDays
    /\ days' = days + 1
    /\ today' = next_date(today)
    /\ UNCHANGED <<calendar, next_id, passes, pc, alerts, existing, page_token,
                   existing_by_alert_id, seen, idx, visited, calls, failed_at,
                   start_cal, prev, input, output>>

Next ==
    \/ \E p \in Runs : handler(p)
    \/ \E p \in Runs : list_alert_events(p)
    \/ \E p \in Runs : sync_alerts_upsert(p)
    \/ \E p \in Runs : sync_alerts_delete(p)
    \/ \E p \in Runs : sync_alerts_return(p)
    \/ Tick

Spec == Init /\ [][Next]_vars

\* Two invocations, each making one pass, in any interleaving: nothing in the
\* code or in the calendar service keeps a second run from starting while the
\* first is under way.  The date does not change while they run.
NextConcurrent ==
    \/ \E p \in AllRuns : pc[p] = "init" /\ handler(p)
    \/ \E p \in AllRuns : list_alert_events(p)
    \/ \E p \in AllRuns : sync_alerts_upsert(p)
    \/ \E p \in AllRuns : sync_alerts_delete(p)
    \/ \E p \in AllRuns : sync_alerts_return(p)

SpecConcurrent == Init /\ [][NextConcurrent]_vars

\* The calendar two overlapping runs leave behind when both list the empty
\* calendar and then create: run 1 over the feed <<DELAY with periods, SHUTTLE>>,
\* run 2 over <<DELAY without period, SHUTTLE>>, their creates alternating.
\* Two events carry the tag 1 and two the tag 2.
DuplicateCalendar ==
    << [id |-> 0,
        body |-> event_body(
            Alert(1, "Red", utf8["Red Line: Delays"], Some("Signal problem"), "DELAY",
                  <<Period(Some(ts1), Some(ts2)), Period(Some(ts3), None)>>),
            FirstDay)],
       [id |-> 1,
        body |-> event_body(
            Alert(1, "Red", utf8["Red Line: Delays"], Some("Signal problem"), "DELAY",
                  <<>>),
            FirstDay)],
       [id |-> 2,
        body |-> event_body(
            Alert(2, "Green-D", utf8["Shuttle buses between Kenmore and Riverside"],
                  None, "SHUTTLE", <<Period(Some(ts3), None)>>),
            FirstDay)],
       [id |-> 3,
        body |-> event_body(
            Alert(2, "Green-D", utf8["Shuttle buses between Kenmore and Riverside"],
                  None, "SHUTTLE", <<Period(Some(ts3), None)>>),
            FirstDay)] >>

\* Sequential passes over a calendar that already holds duplicates
InitDuplicates ==
    /\ calendar = DuplicateCalendar
    /\ next_id = Len(calendar)
    /\ today = FirstDay
    /\ days = 0
    /\ passes = 0
    /\ pc = [p \in AllRuns |-> "init"]
    /\ alerts = [p \in AllRuns |-> <<>>]
    /\ existing = [p \in AllRuns |-> <<>>]
    /\ page_token = [p \in AllRuns |-> None]
    /\ existing_by_alert_id = [p \in AllRuns |-> <<>>]
    /\ seen = [p \in AllRuns |-> {}]
    /\ idx = [p \in AllRuns |-> 1]
    /\ visited = [p \in AllRuns |-> {}]
    /\ calls = [p \in AllRuns |-> <<>>]
    /\ failed_at = [p \in AllRuns |-> ""]
    /\ start_cal = [p \in AllRuns |-> <<>>]
    /\ prev = NoPrev
    /\ input = <<>>
    /\ output = <<>>

SpecDuplicates == InitDuplicates /\ [][Next]_vars

-----------------------------------------------------------------------------
(* The mapper alone: event_body and the functions under it, applied to one
   alert, as the unit tests of calendar.rs apply them *)

\* Headers: those of the tests of calendar.rs (456-511, 573-637), and others
\* around the prefix test, the stop markers and the offsets 30 and 35.
Headers ==
    { utf8[""],
      utf8["Delays"],
      utf8["  Delays"],
      utf8["Delays, minor"],
      utf8["Red Line: Delays"],
      utf8["Red Line:   Delays"],
      utf8["Red Line:Delays"],
      utf8["Notice: Red Line: Delays"],
      utf8["10:30 Red Line: Delays"],
      utf8["Red Line: Note: delays"],
      utf8["Attention Passengers: Some service change is in effect."],
      utf8["Delays expected on the Orange Line due to an earlier incident."],
      utf8["Red Line: Shuttle buses replace service from JFK/UMass through Ashmont (and Mattapan), April 1 - 9, to allow for critical track work."],
      utf8["Green Line B Branch: Service will originate / terminate at the Lake Street platform, just outside of Boston College Station, from 8:45 PM on Friday."],
      utf8["Red Line Ashmont Branch: Service between JFK/UMass and Ashmont will operate with two shuttle trains from April 10 - 30 to allow for critical track work."],
      utf8["Red Line: Shuttle buses will replace service between JFK/UMass and Braintree, the weekend of Mar 29 - 30, for signal upgrades."],
      utf8["Shuttle buses will replace service between Broadway and Ashmont this weekend."],
      utf8["Orange Line: Trains run from North Station to Anderson/Woburn."],
      utf8["Shuttle buses replace service from North Station to Anderson/Woburn."],
      utf8["Shuttle buses replace service between Back Bay and Forest Hills from February 28 - March 8 to allow for track work."],
      utf8["Green Line trains to Heath Street E: Delays"],
      utf8["Green Line trains to Heath Street E2: Delays"],
      utf8["Red Line "] \o en_dash \o utf8[" Alewife "] \o en_dash
          \o utf8[" Ashmont "] \o en_dash \o utf8[" JFK: Delays"],
      utf8["Caf"] \o e_acute \o utf8[" closed"],
      utf8["Delays near the South Bay caf"] \o e_acute \o utf8[" in Dorchester"],
      utf8["Red Line: Delays near the South Bay caf"] \o e_acute \o utf8[" in Dorchester"],
      utf8["Riders"] \o right_quote
          \o utf8[" alert: Orange Line delays of about 10 minutes, expect crowding"],
      utf8["Service suspended in order to repair a broken rail"],
      utf8["Buses between Alewife and Davis that stop at Porter"],
      utf8["Buses between Alewife and Davis from 9 PM"],
      utf8["Buses between Alewife and Davis in order to repair"],
      utf8["Buses between Alewife and Davis starting Monday"],
      utf8["Buses between Alewife and Davis during repairs"],
      utf8["Buses between Alewife and Davis."],
      utf8["Buses through Davis from Alewife"],
      utf8["Buses from Alewife, Davis through Porter"],
      utf8["Buses from Alewife between Davis and Porter"],
      utf8["Buses from Alewife through Davis from 9 PM"],
      utf8["between Alewife and Davis"] }

\* Alerts that differ in what the title is made of
TextInputs ==
    {Alert(9, "Red", header, None, "SHUTTLE", <<>>) : header \in Headers}
    \cup
    { Alert(9, "Green-B", utf8["Buses between Alewife and Davis."], None, "SUSPENSION", <<>>),
      Alert(9, "Blue", utf8["Buses between Alewife and Davis."], None, "ELEVATOR_CLOSURE", <<>>),
      [Alert(9, "Orange", utf8[""], None, "DETOUR", <<>>)
          EXCEPT !.attributes.informed_entity = <<>>] }

\* Timestamps on the days before a month's, a year's and February's end, and
\* one whose first ten bytes are not a date
ts(date) == [date |-> date, time |-> "T05:00:00-05:00"]

Dates ==
    { <<2024, 1, 31>>, <<2024, 12, 31>>, <<2024, 2, 29>>, <<2023, 2, 28>>,
      <<2024, 6, 1>>, <<2024, 2, 30>>, <<2024, 13, 1>> }

\* Alerts that differ in their active periods
TimeInputs ==
    {Alert(9, "Red", utf8["Red Line: Delays"], Some("Signal problem"), "DELAY", periods) :
        periods \in
            { <<>>,
              <<Period(None, None)>>,
              <<Period(None, Some(ts2))>>,
              <<Period(Some(ts1), Some(ts2))>>,
              <<Period(Some(ts1), Some(ts2)), Period(Some(ts3), None)>>,
              <<Period(None, None), Period(Some(ts1), Some(ts2))>> }
            \cup {<<Period(Some(ts(date)), None)>> : date \in Dates}
            \cup {<<Period(Some(ts(date)), None), Period(Some(ts1), Some(ts2))>> :
                     date \in Dates}}

MapperInputs == TextInputs \cup TimeInputs

InitMapper ==
    /\ input \in MapperInputs
    /\ output = <<>>
    /\ calendar = <<>>
    /\ next_id = 0
    /\ today = FirstDay
    /\ days = 0
    /\ passes = 0
    /\ pc = [p \in AllRuns |-> "init"]
    /\ alerts = [p \in AllRuns |-> <<>>]
    /\ existing = [p \in AllRuns |-> <<>>]
    /\ page_token = [p \in AllRuns |-> None]
    /\ existing_by_alert_id = [p \in AllRuns |-> <<>>]
    /\ seen = [p \in AllRuns |-> {}]
    /\ idx = [p \in AllRuns |-> 1]
    /\ visited = [p \in AllRuns |-> {}]
    /\ calls = [p \in AllRuns |-> <<>>]
    /\ failed_at = [p \in AllRuns |-> ""]
    /\ start_cal = [p \in AllRuns |-> <<>>]
    /\ prev = NoPrev

\* One application: what it returned, or that it panicked, is recorded with
\* the date it was made on.
Returned(fn, panicked, value) ==
    /\ Len(output) < MaxCalls
    /\ output' = Append(output, [fn |-> fn, day |-> today, panic |-> panicked,
                                 value |-> IF panicked THEN <<>> ELSE value])
    /\ UNCHANGED <<calendar, next_id, today, days, passes, pc, alerts, existing,
                   page_token, existing_by_alert_id, seen, idx, visited, calls,
                   failed_at, start_cal, prev, input>>

call_strip_line_prefix ==
    Returned("strip_line_prefix", FALSE, strip_line_prefix(input.attributes.header))

call_location_phrase ==
    Returned("location_phrase", FALSE, location_phrase(input.attributes.header))

call_event_summary ==
    Returned("event_summary", event_summary(input) = Panic, event_summary(input))

\* event_body panics when event_summary does
call_event_body ==
    Returned("event_body", event_summary(input) = Panic, event_body(input, today))

NextMapper ==
    \/ call_strip_line_prefix
    \/ call_location_phrase
    \/ call_event_summary
    \/ call_event_body
    \/ Tick

SpecMapper == InitMapper /\ [][NextMapper]_vars

-----------------------------------------------------------------------------
(* Properties *)

\* The ownership tag of a stored event: the value of the private extended
\* property mbta_alert_id in its JSON, when there is one
TagOf(ev) ==
    IF /\ "extendedProperties" \in DOMAIN ev.body
       /\ "private" \in DOMAIN ev.body.extendedProperties
       /\ "mbta_alert_id" \in DOMAIN ev.body.extendedProperties.private
    THEN Some(ev.body.extendedProperties.private["mbta_alert_id"])
    ELSE None

Tags(cal) == {TagOf(cal[k])[1] : k \in {j \in 1..Len(cal) : TagOf(cal[j]) # None}}

CallsOf(p, ops) == {k \in 1..Len(calls[p]) : calls[p][k].op \in ops}

CallsFor(p, a) == {k \in 1..Len(calls[p]) : calls[p][k].alert_id = a}

\* C1: at most one calendar event per alert id at any time, in every state
\* that sequential passes reach from a calendar with no tagged event (or with
\* the one event an earlier run left), whatever the feeds and whichever calls
\* fail: no two events of the calendar carry the same mbta_alert_id tag.
C1_OneEventPerAlertId ==
    \A i, j \in 1..Len(calendar) :
        (TagOf(calendar[i]) # None /\ TagOf(calendar[i]) = TagOf(calendar[j])) => i = j

\* C1's case: the first pass failed at a call after an event had been created,
\* and the second pass completed: it found that event and updated it, created
\* the missing one, and the calendar holds one event for each alert id.
C1_Witness ==
    /\ passes = 2
    /\ ~prev.ok
    /\ Tags(start_cal[1]) # {}
    /\ pc[1] = "ok"
    /\ CallsOf(1, {"update"}) # {}
    /\ CallsOf(1, {"create"}) # {}
    /\ Tags(calendar) = AlertIds

Untagged(cal) == {cal[k] : k \in {j \in 1..Len(cal) : TagOf(cal[j]) = None}}

\* C2: a pass never updates or deletes an event without the alert-id tag.  For
\* every run: each mapping entry points at a listed event that carries that
\* alert id as its tag; no update or delete is addressed to the id of an
\* untagged event; and every untagged event the calendar held when the run
\* started is still there, unchanged.
C2_UntaggedNeverTouched ==
    \A p \in AllRuns :
        /\ \A a \in DOMAIN existing_by_alert_id[p] :
              \E k \in 1..Len(existing[p]) :
                  /\ existing[p][k].id = existing_by_alert_id[p][a]
                  /\ TagOf(existing[p][k]) = Some(a)
        /\ \A k \in CallsOf(p, {"update", "delete"}) :
              \A ev \in Untagged(start_cal[p]) : calls[p][k].event_id # Some(ev.id)
        /\ Untagged(start_cal[p]) \subseteq Range(calendar)

\* C2's case: a completed pass that listed an untagged event whose own id is
\* the id of a live alert of the feed, and that issued an update and a delete.
C2_Witness ==
    /\ pc[1] = "ok"
    /\ \E k \in 1..Len(existing[1]) :
          /\ TagOf(existing[1][k]) = None
          /\ \E j \in 1..Len(alerts[1]) :
                /\ alerts[1][j].id = existing[1][k].id
                /\ ~IsSkipped(alerts[1][j])
    /\ \E ev \in Untagged(start_cal[1]) : ev.id \in DOMAIN existing_by_alert_id[1]
    /\ CallsOf(1, {"update"}) # {}
    /\ CallsOf(1, {"delete"}) # {}

\* C3: skip-list alerts never produce a create, an update or a delete: no call
\* of a run concerns the alert id of an alert of its feed whose effect is
\* STATION_ISSUE, STOP_CLOSURE or STATION_CLOSURE.
C3_SkippedNeverCalled ==
    \A p \in AllRuns :
        \A k \in 1..Len(alerts[p]) :
            alerts[p][k].attributes.effect
                \in {"STATION_ISSUE", "STOP_CLOSURE", "STATION_CLOSURE"}
            => CallsFor(p, alerts[p][k].id) = {}

Count(p, ops) == Cardinality(CallsOf(p, ops))

AllLive(feed) ==
    \A k \in 1..Len(feed) :
        feed[k].attributes.effect
            \notin {"STATION_ISSUE", "STOP_CLOSURE", "STATION_CLOSURE"}

\* C4: reconciler round trip.  A pass that completes from an empty mapping over
\* n live alerts issues n creates, one per alert in feed order, and nothing
\* else; the completed pass over the same alerts that follows issues n updates
\* and nothing else; the completed pass after that, over the same alerts less
\* one, issues no create, one update for each alert left and one delete,
\* addressed to the event of the alert that was removed.
C4_RoundTrip ==
    \A p \in Runs :
        pc[p] = "ok" =>
            LET n == Len(alerts[p]) IN
            /\ (DOMAIN existing_by_alert_id[p] = {} /\ AllLive(alerts[p])) =>
                  /\ Len(calls[p]) = n
                  /\ \A k \in 1..n : /\ calls[p][k].op = "create"
                                     /\ calls[p][k].alert_id = alerts[p][k].id
            /\ prev.chain = 2 =>
                  /\ Count(p, {"create"}) = 0
                  /\ Count(p, {"update"}) = n
                  /\ Count(p, {"delete"}) = 0
                  /\ \A k \in 1..n :
                        Cardinality(CallsFor(p, alerts[p][k].id)) = 1
            /\ prev.chain = 3 =>
                  /\ Count(p, {"create"}) = 0
                  /\ Count(p, {"update"}) = n
                  /\ \A k \in 1..n :
                        \E j \in CallsOf(p, {"update"}) :
                            calls[p][j].alert_id = alerts[p][k].id
                  /\ Count(p, {"delete"}) = 1
                  /\ \A j \in CallsOf(p, {"delete"}) :
                        /\ calls[p][j].alert_id \in prev.removed \ Ids(alerts[p])
                        /\ \E ev \in Range(start_cal[p]) :
                              /\ TagOf(ev) = Some(calls[p][j].alert_id)
                              /\ calls[p][j].event_id = Some(ev.id)
                              /\ ev.id \notin EventIds(calendar)

\* C4's case: the third pass of a round trip over two alerts has completed.
C4_Witness ==
    /\ pc[1] = "ok"
    /\ prev.chain = 3
    /\ Cardinality(prev.removed) = 1
    /\ Len(alerts[1]) = 1
    /\ Count(1, {"update"}) = 1
    /\ Count(1, {"delete"}) = 1

\* The dates from one date to a later one
RECURSIVE DatesSince(_, _)
DatesSince(from, to) ==
    IF from = to THEN {to} ELSE {from} \cup DatesSince(next_date(from), to)

\* The payload the calendar held, when run p started, in the event with this id
StoredBody(p, event_id) ==
    (CHOOSE ev \in Range(start_cal[p]) : ev.id = event_id[1]).body

TaggedEvents(cal) ==
    {<<cal[k].id, TagOf(cal[k])>> : k \in {j \in 1..Len(cal) : TagOf(cal[j]) # None}}

\* The second of two passes over the same alerts, the first having completed
Rerun(p) ==
    /\ pc[p] = "ok"
    /\ prev.ok
    /\ prev.same

HasStart(alert) ==
    /\ alert.attributes.active_period # <<>>
    /\ alert.attributes.active_period[1].start # None

AlertWithId(p, a) == CHOOSE x \in Range(alerts[p]) : x.id = a

\* What a completed pass wrote is what the calendar holds when it returns: for
\* each create and update there is an event tagged with the alert id whose
\* payload is the one the call sent.
WrittenIsStored(p) ==
    pc[p] = "ok" =>
        \A k \in CallsOf(p, {"create", "update"}) :
            \E ev \in Range(calendar) :
                /\ TagOf(ev) = Some(calls[p][k].alert_id)
                /\ ev.body = calls[p][k].body[1]

\* C5 as stated: a second pass over the same alerts, after a first pass that
\* completed, issues no create and no delete, leaves the set of tagged events
\* unchanged, and each update carries the very payload the first pass wrote
\* for that alert (the payload the calendar holds when the second pass starts).
C5_RerunIdenticalPayload ==
    \A p \in Runs :
        /\ WrittenIsStored(p)
        /\ Rerun(p) =>
            /\ Count(p, {"create", "delete"}) = 0
            /\ TaggedEvents(calendar) = TaggedEvents(start_cal[p])
            /\ \A k \in CallsOf(p, {"update"}) :
                  calls[p][k].body[1] = StoredBody(p, calls[p][k].event_id)

\* C5 amended: as C5, but the payload of an update is the one the first pass
\* wrote in title, description and tag always, and in start and end when the
\* alert's first active period has a start; when there is no active period or
\* the first one has no start, start and end are the UTC date of the call and
\* the day after it, so the payload is the one the first pass wrote only if
\* that pass wrote it on the same UTC date.
C5_RerunSamePayloadButToday ==
    \A p \in Runs :
        /\ WrittenIsStored(p)
        /\ Rerun(p) =>
            /\ Count(p, {"create", "delete"}) = 0
            /\ TaggedEvents(calendar) = TaggedEvents(start_cal[p])
            /\ \A k \in CallsOf(p, {"update"}) :
                  LET new == calls[p][k].body[1]
                      old == StoredBody(p, calls[p][k].event_id)
                      alert == AlertWithId(p, calls[p][k].alert_id)
                  IN /\ new.summary = old.summary
                     /\ new.description = old.description
                     /\ new.extendedProperties = old.extendedProperties
                     /\ HasStart(alert) => new = old
                     /\ ~HasStart(alert) =>
                           /\ \E day \in DatesSince(FirstDay, today) :
                                 /\ new.start = [date |-> day]
                                 /\ new.end = [date |-> next_date(day)]
                           /\ old.start = new.start => new = old

\* C5's case: a second pass over the same two alerts has completed on the day
\* after the first; it updated the event of an alert whose period has a start
\* with the same payload, and the event of an alert without active period with
\* new dates.
C5_Witness ==
    /\ Rerun(1)
    /\ Count(1, {"update"}) = 2
    /\ \E k \in CallsOf(1, {"update"}) :
          /\ HasStart(AlertWithId(1, calls[1][k].alert_id))
          /\ calls[1][k].body[1] = StoredBody(1, calls[1][k].event_id)
    /\ \E k \in CallsOf(1, {"update"}) :
          /\ ~HasStart(AlertWithId(1, calls[1][k].alert_id))
          /\ calls[1][k].body[1] # StoredBody(1, calls[1][k].event_id)

\* The ids of the alerts of run p's feed whose effect is not in the skip-list
LiveIds(p) ==
    {alerts[p][k].id : k \in {j \in 1..Len(alerts[p]) : AllLive(<<alerts[p][j]>>)}}

\* C6: the deletes of a pass.  Every delete issued is addressed to the event
\* that the mapping holds for an alert id that was not recorded as seen, and
\* never to the event of a live alert of the current feed; a pass that runs to
\* its end has recorded every live alert as seen and has issued one delete for
\* each mapping entry that was not seen, and no other.
C6_DeletesExactlyUnseen ==
    \A p \in AllRuns :
        /\ \A k \in CallsOf(p, {"delete"}) :
              LET a == calls[p][k].alert_id IN
              /\ a \in DOMAIN existing_by_alert_id[p]
              /\ calls[p][k].event_id = Some(existing_by_alert_id[p][a])
              /\ a \notin seen[p]
              /\ a \notin LiveIds(p)
              /\ \A j \in CallsOf(p, {"delete"}) : calls[p][j].alert_id = a => j = k
        /\ pc[p] = "ok" =>
              /\ seen[p] = LiveIds(p)
              /\ {calls[p][k].alert_id : k \in CallsOf(p, {"delete"})}
                    = DOMAIN existing_by_alert_id[p] \ seen[p]

\* C6's case: a completed pass whose mapping held the event of a live alert,
\* which it updated, and the event of an alert gone from the feed, which it
\* deleted.
C6_Witness ==
    /\ pc[1] = "ok"
    /\ Cardinality(DOMAIN existing_by_alert_id[1]) = 2
    /\ Count(1, {"update"}) = 1
    /\ Count(1, {"delete"}) = 1
    /\ \A k \in CallsOf(1, {"delete"}) : calls[1][k].alert_id \notin Ids(alerts[1])

\* C7: one call for each live alert.  Every create or update of a run is for a
\* live alert the loop has reached; an update is addressed to the event the
\* mapping holds for that alert's id, a create is only for an id that is not in
\* the mapping; and each live alert the loop has gone past is the subject of
\* exactly one call of the run.
C7_OneUpsertPerLiveAlert ==
    \A p \in AllRuns :
        /\ \A k \in CallsOf(p, {"create", "update"}) :
              LET c == calls[p][k] IN
              /\ \E j \in 1..Min(idx[p], Len(alerts[p])) :
                    alerts[p][j].id = c.alert_id /\ AllLive(<<alerts[p][j]>>)
              /\ c.op = "update" =>
                    /\ c.alert_id \in DOMAIN existing_by_alert_id[p]
                    /\ c.event_id = Some(existing_by_alert_id[p][c.alert_id])
              /\ c.op = "create" =>
                    /\ c.alert_id \notin DOMAIN existing_by_alert_id[p]
                    /\ c.event_id = None
              /\ \E day \in DatesSince(FirstDay, today) :
                    c.body = Some(event_body(AlertWithId(p, c.alert_id), day))
        /\ \A j \in 1..(idx[p] - 1) :
              AllLive(<<alerts[p][j]>>) =>
                  Cardinality(CallsFor(p, alerts[p][j].id)) = 1
        /\ pc[p] = "ok" => idx[p] = Len(alerts[p]) + 1

\* C7's case: a completed pass over two live alerts, one in the mapping and
\* updated, the other not in the mapping and created.
C7_Witness ==
    /\ pc[1] = "ok"
    /\ Len(alerts[1]) = 2
    /\ Cardinality(DOMAIN existing_by_alert_id[1]) = 1
    /\ Count(1, {"update"}) = 1
    /\ Count(1, {"create"}) = 1

FailedCalls(p) == {k \in 1..Len(calls[p]) : calls[p][k].outcome # "ok"}

\* The operations of the pass's diff that run p has not attempted
Unattempted(p) ==
    {a \in LiveIds(p) \cup DOMAIN existing_by_alert_id[p] : CallsFor(p, a) = {}}

\* C8: a failed create, update or delete ends the pass at once.  A call that
\* failed is the last call of its run, which has returned the error (so the
\* call is not retried and no other call follows it); and the calls that had
\* succeeded before are not rolled back: the event each create or update wrote
\* is in the calendar with that payload, the event each delete removed is gone.
C8_FailureEndsPassAtOnce ==
    \A p \in Runs :
        /\ \A k \in FailedCalls(p) :
              /\ k = Len(calls[p])
              /\ pc[p] = "err"
              /\ failed_at[p] = "call"
        /\ failed_at[p] = "call" => FailedCalls(p) # {}
        /\ \A k \in 1..Len(calls[p]) :
              calls[p][k].outcome = "ok" =>
                  IF calls[p][k].op = "delete"
                  THEN calls[p][k].event_id[1] \notin EventIds(calendar)
                  ELSE \E ev \in Range(calendar) :
                          /\ TagOf(ev) = Some(calls[p][k].alert_id)
                          /\ ev.body = calls[p][k].body[1]

\* C8's case: a run whose second call failed, after a first call that had
\* succeeded and whose event is in the calendar, with an operation of its diff
\* (the delete of a stale event) not attempted.
C8_Witness ==
    /\ pc[1] = "err"
    /\ failed_at[1] = "call"
    /\ Len(calls[1]) = 2
    /\ calls[1][1].outcome = "ok"
    /\ calls[1][1].op = "create"
    /\ calls[1][2].outcome = "err"
    /\ Unattempted(1) # {}
    /\ Unattempted(1) \subseteq DOMAIN existing_by_alert_id[1]

\* C9 as stated: one failing call does not prevent the pass from attempting the
\* others: when a run has ended on a failed call, every operation of its diff
\* has been attempted, i.e. there is a call for each live alert and for each
\* mapping entry.
C9_OthersStillAttempted ==
    \A p \in Runs :
        (pc[p] = "err" /\ failed_at[p] = "call") => Unattempted(p) = {}

\* C9 amended: one failing call prevents the pass from attempting the others:
\* once a call of a run has failed, the run has ended, the calls issued are the
\* ones up to the failed call, the live alerts after the one being processed
\* have no call, no mapping entry that the delete loop had not reached has a
\* call, and a failure in the create/update loop leaves the run without any
\* delete.
C9_FailureSkipsTheRest ==
    \A p \in Runs :
        FailedCalls(p) # {} =>
            LET f == CHOOSE k \in FailedCalls(p) : \A j \in FailedCalls(p) : k <= j IN
            /\ pc[p] = "err"
            /\ Len(calls[p]) = f
            /\ \A j \in (idx[p] + 1)..Len(alerts[p]) :
                  CallsFor(p, alerts[p][j].id) = {}
            /\ \A a \in DOMAIN existing_by_alert_id[p] \ (seen[p] \cup visited[p]) :
                  CallsFor(p, a) \subseteq {f}
            /\ idx[p] <= Len(alerts[p]) => Count(p, {"delete"}) = 0

\* C9's case: a run that ended on the failed call for its first alert, with a
\* second live alert and a stale mapping entry never attempted.
C9_Witness ==
    /\ pc[1] = "err"
    /\ failed_at[1] = "call"
    /\ Len(calls[1]) = 1
    /\ Len(alerts[1]) = 2
    /\ AllLive(alerts[1])
    /\ Unattempted(1) # {}

\* C10: no call before the feed and the whole listing are in.  A run that has
\* issued a call has fetched its feed and every page of the listing (what it
\* holds is all the events that pass the filter); a run that failed at the feed,
\* at the client or at a page has ended with an error, has issued no call and
\* has left the calendar as it was when the run started.
C10_NoCallBeforeFullListing ==
    \A p \in Runs :
        /\ calls[p] # <<>> =>
              /\ failed_at[p] \in {"", "call"}
              /\ page_token[p] = None
              /\ existing[p] = Filter(start_cal[p])
        /\ pc[p] \in {"sync", "ok"} => existing[p] = Filter(start_cal[p])
        /\ failed_at[p] \in {"feed", "env", "list"} =>
              /\ pc[p] = "err"
              /\ calls[p] = <<>>
              /\ calendar = start_cal[p]

\* C10's case: the listing failed at its second page, with the first page in
\* hand, a live alert in the feed and tagged events in the calendar.
C10_Witness ==
    /\ pc[1] = "err"
    /\ failed_at[1] = "list"
    /\ existing[1] # <<>>
    /\ LiveIds(1) # {}
    /\ Tags(calendar) # {}
    /\ calls[1] = <<>>

\* C11: repeating a failed run is safe.  When a pass has ended on a failed
\* create, update or delete, and the pass after it, over the same alerts, has
\* completed, the calendar holds exactly one tagged event for each live alert
\* whose effect is not in the skip-list, and no tagged event for any other
\* alert id.
C11_RepeatAfterFailure ==
    \A p \in Runs :
        (pc[p] = "ok" /\ prev.failed_call /\ prev.same) =>
            /\ \A a \in LiveIds(p) :
                  Cardinality({k \in 1..Len(calendar) : TagOf(calendar[k]) = Some(a)}) = 1
            /\ Tags(calendar) \subseteq LiveIds(p)

\* C11's case: the first pass over two live alerts ended on a failed call after
\* one event had been written; the pass that repeated it completed, updating
\* that event and creating the other, and a stale event was deleted.
C11_Witness ==
    /\ pc[1] = "ok"
    /\ prev.failed_call
    /\ prev.same
    /\ Cardinality(LiveIds(1)) = 2
    /\ Count(1, {"update"}) = 1
    /\ Count(1, {"create"}) = 1
    /\ Count(1, {"delete"}) = 1

\* C13: within a single pass no alert id is the subject of more than one
\* calendar call, be it a create, an update or a delete (the ids of a feed
\* being distinct).
C13_OneCallPerAlertId ==
    \A p \in AllRuns :
        \A j, k \in 1..Len(calls[p]) :
            calls[p][j].alert_id = calls[p][k].alert_id => j = k

\* C13's case: a completed pass that issued a create or an update and two
\* deletes on three alert ids, one of the deletes being for an alert of the feed
\* whose effect is in the skip-list.
C13_Witness ==
    /\ pc[1] = "ok"
    /\ Len(calls[1]) = 3
    /\ Count(1, {"create", "update"}) = 1
    /\ Count(1, {"delete"}) = 2
    /\ \E k \in CallsOf(1, {"delete"}) : calls[1][k].alert_id \in Ids(alerts[1])

\* C14: ownership round trip.  Every payload sent by a create or an update
\* carries the private properties mbta_alert_source = "true" and
\* mbta_alert_id = the id of the call's alert; every event of the calendar that
\* carries an mbta_alert_id passes the listing's filter, and alert_id() on it
\* gives that id, so that a run that has listed holds it under that id in its
\* mapping; alert_id() gives none for an event without extended properties,
\* without private map or without the mbta_alert_id key.
C14_OwnershipRoundTrip ==
    /\ \A p \in AllRuns :
          /\ \A k \in CallsOf(p, {"create", "update"}) :
                calls[p][k].body[1].extendedProperties =
                    [private |-> [mbta_alert_source |-> "true",
                                  mbta_alert_id |-> calls[p][k].alert_id]]
          /\ pc[p] \in {"sync", "ok"} =>
                \A ev \in Range(start_cal[p]) :
                    TagOf(ev) # None =>
                        /\ ev \in Range(existing[p])
                        /\ TagOf(ev)[1] \in DOMAIN existing_by_alert_id[p]
    /\ \A ev \in Range(calendar) :
          /\ TagOf(ev) # None =>
                /\ MatchesFilter(ev)
                /\ alert_id(CalendarEvent(ev)) = TagOf(ev)
          /\ TagOf(ev) = None => alert_id(CalendarEvent(ev)) = None

\* C14's case: a pass has listed, beside an event with the marker and without
\* the id, the event that the pass before it created, and has updated it; the
\* calendar holds events without extended properties and without private map.
C14_Witness ==
    /\ passes = 2
    /\ pc[1] = "ok"
    /\ ForeignPlain \in Range(calendar)
    /\ ForeignNoPrivate \in Range(calendar)
    /\ ForeignSourceOnly \in Range(existing[1])
    /\ \E k \in CallsOf(1, {"update"}) :
          /\ calls[1][k].event_id[1] > LeftoverEvent.id
          /\ \E ev \in Range(existing[1]) :
                /\ ev.id = calls[1][k].event_id[1]
                /\ alert_id(CalendarEvent(ev)) = Some(calls[1][k].alert_id)

IsLive(alert) == ~IsSkipped(alert)

\* The alerts of run p's feed that are not skipped, in feed order
LiveSeq(p) == SelectSeq(alerts[p], IsLive)

\* The events the calendar held when run p started whose tag is not the id of
\* a live alert of its feed
StaleEvents(p) ==
    {ev \in Range(start_cal[p]) : TagOf(ev) # None /\ TagOf(ev)[1] \notin LiveIds(p)}

\* C20: the order of the calls of a pass.  The creates and updates come first,
\* one for each live alert in feed order, each issued after the one before it
\* has returned successfully; a delete is issued only after the create or
\* update of every live alert has returned successfully; so a pass with a
\* failed create or update has issued no delete, and every stale event is still
\* in the calendar.
C20_UpsertsInFeedOrderThenDeletes ==
    \A p \in Runs :
        LET live == LiveSeq(p)
            upserts == CallsOf(p, {"create", "update"})
            deletes == CallsOf(p, {"delete"})
        IN /\ \A k \in upserts :
                 /\ k <= Len(live)
                 /\ calls[p][k].alert_id = live[k].id
                 /\ \A j \in 1..(k - 1) : calls[p][j].outcome = "ok"
           /\ deletes # {} =>
                 \A j \in 1..Len(live) :
                     /\ j \in upserts
                     /\ calls[p][j].outcome = "ok"
                     /\ \A k \in deletes : j < k
           /\ (\E k \in upserts : calls[p][k].outcome # "ok") =>
                 /\ deletes = {}
                 /\ \A ev \in StaleEvents(p) : ev.id \in EventIds(calendar)

\* C20's case: a pass over two live alerts, the alert with the larger id first
\* in the feed, whose first call returned and whose second call, an update,
\* failed; the stale event is in the calendar.
C20_Witness ==
    /\ pc[1] = "err"
    /\ Len(LiveSeq(1)) = 2
    /\ LiveSeq(1)[1].id > LiveSeq(1)[2].id
    /\ Len(calls[1]) = 2
    /\ calls[1][2].op = "update"
    /\ calls[1][2].outcome # "ok"
    /\ StaleEvents(1) # {}

\* The alert ids that more than one event of the calendar carries as tag
Duplicated(cal) ==
    {a \in Tags(cal) : Cardinality({k \in 1..Len(cal) : TagOf(cal[k]) = Some(a)}) > 1}

\* C12: two concurrent passes can double-create.  A pass decides between
\* create and update from its own listing alone, without lock and without
\* looking again before the call: each create is for an alert id that the
\* run's listing did not hold, each update for one that it held, whatever the
\* calendar holds when the call is made; and when two events carry the same
\* alert id, each of the two passes has listed no event with that id and has
\* created one.  (That such a state is reached is C12_Witness.)
C12_CreateDecidedFromOwnListing ==
    /\ \A p \in AllRuns :
          \A k \in CallsOf(p, {"create", "update"}) :
              calls[p][k].op = "create" <=> calls[p][k].alert_id \notin Tags(existing[p])
    /\ \A a \in Duplicated(calendar) :
          \A p \in AllRuns :
              /\ a \notin Tags(existing[p])
              /\ \E k \in CallsOf(p, {"create"}) :
                    calls[p][k].alert_id = a /\ calls[p][k].outcome # "err"

\* C12's case: both passes listed before either created, both created for the
\* same alert and completed, and the calendar holds two events tagged with
\* that alert's id.
C12_Witness ==
    /\ pc[1] = "ok"
    /\ pc[2] = "ok"
    /\ start_cal[1] = start_cal[2]
    /\ existing[1] = existing[2]
    /\ Duplicated(calendar) # {}
    /\ \A p \in AllRuns : \A k \in 1..Len(calls[p]) : calls[p][k].outcome = "ok"

-----------------------------------------------------------------------------
(* Properties of the mapper *)

\* The applications of fn recorded so far
Results(fn) == {k \in 1..Len(output) : output[k].fn = fn}

\* C15 as stated: event_body is pure: two calls on the same alert return the
\* same payload whenever they are made.
C15_SamePayloadWhenever ==
    \A j, k \in Results("event_body") :
        /\ output[j].panic = output[k].panic
        /\ output[j].value = output[k].value

\* C15 amended: two calls of event_body on the same alert return the same
\* title, description and tag whenever they are made (or both panic); start and
\* end are the same too when the alert's first active period has a start;
\* when the alert has no active period or a first period without start, they
\* are the UTC date of the call and the day after it, so that the two payloads
\* are the same if the calls are made on the same UTC date.
C15_SamePayloadButToday ==
    \A j, k \in Results("event_body") :
        /\ output[j].panic = output[k].panic
        /\ ~output[j].panic =>
              LET a == output[j].value
                  b == output[k].value
              IN /\ a.summary = b.summary
                 /\ a.description = b.description
                 /\ a.extendedProperties = b.extendedProperties
                 /\ HasStart(input) => a = b
                 /\ ~HasStart(input) =>
                       /\ a.start = [date |-> output[j].day]
                       /\ a.end = [date |-> next_date(output[j].day)]
                       /\ output[j].day = output[k].day => a = b

\* C15's case: event_body was called twice, on two dates, on an alert whose
\* first active period has an end and no start; the two payloads differ.
C15_Witness ==
    /\ Results("event_body") = {1, 2}
    /\ output[1].day # output[2].day
    /\ input.attributes.active_period # <<>>
    /\ input.attributes.active_period[1].end # None
    /\ ~HasStart(input)
    /\ output[1].value # output[2].value
    /\ output[1].value.summary = output[2].value.summary

\* The day after a date, for the dates of the inputs and of the clock: the
\* three roll-overs that the specification lists, the last day of a February
\* of 28 days, the strings that are not dates, and the days within a month.
DayAfter(date) ==
    CASE date = <<2024, 1, 31>> -> <<2024, 2, 1>>
      [] date = <<2024, 12, 31>> -> <<2025, 1, 1>>
      [] date = <<2024, 2, 29>> -> <<2024, 3, 1>>
      [] date = <<2023, 2, 28>> -> <<2023, 3, 1>>
      [] date \in {<<2024, 2, 30>>, <<2024, 13, 1>>} -> date
      [] OTHER -> <<date[1], date[2], date[3] + 1>>

\* C16: start and end of the payload come from the first active period only:
\* the payload is the one of the same alert with its later periods removed.
\* With start and end both present they are passed through as dateTime; with
\* start present and end absent the event is all-day on the start's date and
\* ends on the next calendar day, across the ends of months, of years and of
\* February, a start that is not a date passing through unchanged; with no
\* active period, or a first period with neither bound, the event is all-day
\* on the date of the call and ends on the day after it.
C16_TimesFromFirstPeriod ==
    \A k \in Results("event_body") :
        ~output[k].panic =>
            LET payload == output[k].value
                periods == input.attributes.active_period
                now == output[k].day
                all_day_today == /\ payload.start = [date |-> now]
                                 /\ payload.end = [date |-> DayAfter(now)]
            IN /\ payload =
                    event_body([input EXCEPT !.attributes.active_period =
                                    SubSeq(@, 1, Min(1, Len(@)))], now)
               /\ periods = <<>> => all_day_today
               /\ periods # <<>> =>
                     LET start == periods[1].start
                         end == periods[1].end
                     IN /\ (start # None /\ end # None) =>
                              /\ payload.start = [dateTime |-> start[1]]
                              /\ payload.end = [dateTime |-> end[1]]
                        /\ (start # None /\ end = None) =>
                              /\ payload.start = [date |-> start[1].date]
                              /\ payload.end = [date |-> DayAfter(start[1].date)]
                        /\ (start = None /\ end = None) => all_day_today

\* C16's case: event_body was called on the day after the clock's first day,
\* a leap day, on an alert with two periods, the first open-ended and starting
\* on the last day of a year; and the payload ends on the first of January.
C16_Witness ==
    /\ Len(input.attributes.active_period) = 2
    /\ input.attributes.active_period[1] = Period(Some(ts(<<2024, 12, 31>>)), None)
    /\ \E k \in Results("event_body") :
          /\ output[k].day = <<2024, 2, 29>>
          /\ output[k].value.start = [date |-> <<2024, 12, 31>>]
          /\ output[k].value.end = [date |-> <<2025, 1, 1>>]

\* C17: event_summary is total: whatever the header, the active periods and
\* the informed entities of the alert, event_summary (and event_body, which
\* calls it) returns and does not panic.
C17_SummaryNeverPanics ==
    \A k \in Results("event_summary") \cup Results("event_body") : ~output[k].panic

\* The offsets at which pat occurs in s
Occurrences(s, pat) ==
    {i \in 0..(Len(s) - Len(pat)) : SubSeq(s, i + 1, i + Len(pat)) = pat}

Least(set) == CHOOSE x \in set : \A y \in set : x <= y

\* The characters of s: the bytes that do not continue one
Chars(s) == Cardinality({i \in 1..Len(s) : s[i] \notin {"xA9", "x80", "x99", "x93"}})

\* s from its first byte that is not white space
TrimmedLeft(s) ==
    LET black == {i \in 1..Len(s) : s[i] \notin {" ", "\t"}}
    IN IF black = {} THEN <<>> ELSE SubSeq(s, Least(black), Len(s))

\* s up to its last byte that is not one of chars
TrimmedRight(s, chars) ==
    LET kept == {i \in 1..Len(s) : s[i] \notin chars}
    IN IF kept = {} THEN <<>>
       ELSE SubSeq(s, 1, CHOOSE x \in kept : \A y \in kept : y <= x)

\* C18: line-prefix stripping.  For a header that contains a colon, the text
\* before the colon, the colon and the white space after it are dropped if
\* and only if that text contains "Line" and is at most 35 characters long;
\* in every other case the header is returned with its leading white space
\* trimmed and nothing else changed.
C18_PrefixStrippedIffLineWithin35 ==
    \A k \in Results("strip_line_prefix") :
        LET header == input.attributes.header
            colons == Occurrences(header, <<":">>)
            colon == Least(colons)
            prefix == SubSeq(header, 1, colon)
        IN output[k].value =
              IF /\ colons # {}
                 /\ Occurrences(prefix, <<"L", "i", "n", "e">>) # {}
                 /\ Chars(prefix) <= 35
              THEN TrimmedLeft(SubSeq(header, colon + 2, Len(header)))
              ELSE TrimmedLeft(header)

\* The phrase that C19 describes for a content, as an Option
DescribedPhrase(content) ==
    LET betweens == Occurrences(content, utf8[" between "])
        froms == Occurrences(content, utf8[" from "])
        throughs == Occurrences(content, utf8[" through "])
        at == IF betweens # {} THEN Some(Least(betweens) + 1)
              ELSE IF froms # {} /\ \E t \in throughs : t > Least(froms)
              THEN Some(Least(froms) + 1)
              ELSE None
    IN IF at = None THEN None
       ELSE LET fragment == SubSeq(content, at[1] + 1, Len(content))
                stops == UNION {Occurrences(fragment, marker) :
                                  marker \in { utf8[", "], utf8[" will "], utf8[" this "],
                                               utf8[" that "], utf8[" from "],
                                               utf8[" to allow"], utf8[" in order"],
                                               utf8[" starting"], utf8[" during"] }}
                cut == IF stops = {} THEN Len(fragment) ELSE Least(stops)
                phrase == TrimmedRight(SubSeq(fragment, 1, cut), {".", ",", " "})
            IN IF phrase = <<>> THEN None ELSE Some(phrase)

\* C19: location-phrase extraction.  location_phrase returns the phrase that
\* starts at "between" when the content contains " between "; otherwise the one
\* that starts at "from" when the content contains " from " with " through "
\* after it; otherwise nothing.  The phrase is cut at the earliest of the nine
\* stop markers, '.', ',' and spaces are removed from its end, and an empty
\* phrase is no phrase.  So for the examples of the specification; and a
\* title made without phrase ("from A to B") is the brief content.
C19_LocationPhrase ==
    /\ \A k \in Results("location_phrase") :
          LET content == input.attributes.header IN
          /\ output[k].value = DescribedPhrase(content)
          /\ output[k].value # None =>
                /\ \/ SubSeq(output[k].value[1], 1, 7) = utf8["between"]
                   \/ SubSeq(output[k].value[1], 1, 4) = utf8["from"]
                /\ output[k].value[1][Len(output[k].value[1])] \notin {".", ",", " "}
          /\ content = utf8["Shuttle buses will replace service between Broadway and Ashmont this weekend."]
                => output[k].value = Some(utf8["between Broadway and Ashmont"])
          /\ content = utf8["Red Line: Shuttle buses replace service from JFK/UMass through Ashmont (and Mattapan), April 1 - 9, to allow for critical track work."]
                => output[k].value = Some(utf8["from JFK/UMass through Ashmont (and Mattapan)"])
          /\ content = utf8["Shuttle buses replace service from North Station to Anderson/Woburn."]
                => output[k].value = None
          /\ content = utf8["Shuttle buses replace service between Back Bay and Forest Hills from February 28 - March 8 to allow for track work."]
                => output[k].value = Some(utf8["between Back Bay and Forest Hills"])
    /\ \A k \in Results("event_summary") :
          input = Alert(9, "Red", utf8["Shuttle buses replace service from North Station to Anderson/Woburn."],
                        None, "SHUTTLE", <<>>)
            => output[k].value = utf8["[Red Line] Shuttle buses replace service from North Station to Anderson/Woburn"]

\* C19's case: location_phrase was called on a content whose " from " clause
\* has a stop marker before its " through ", and returned the phrase that
\* starts at "from" and ends before the marker; the title made of it has been
\* computed too.
C19_Witness ==
    /\ input.attributes.header = utf8["Buses from Alewife, Davis through Porter"]
    /\ \E k \in Results("location_phrase") :
          output[k].value = Some(utf8["from Alewife"])
    /\ \E k \in Results("event_summary") :
          output[k].value = utf8["[Red Line] Shuttle from Alewife"]

-----------------------------------------------------------------------------
(* Properties of a listing that holds duplicates *)

\* The events of a listing that carry the tag a, and the last of them
TaggedWith(events, a) == {k \in 1..Len(events) : TagOf(events[k]) = Some(a)}

LastTaggedWith(events, a) ==
    events[CHOOSE k \in TaggedWith(events, a) : \A j \in TaggedWith(events, a) : j <= k]

\* The listing of run p is complete and its mapping is built
Listed(p) == pc[p] \in {"sync", "ok"} \/ (pc[p] = "err" /\ failed_at[p] = "call")

\* C21: duplicates in the listing.  In every pass whose listing holds more
\* than one event tagged with the same alert id, the mapping holds for that id
\* the last of these events in list order; the pass issues no create for the
\* id and at most one update or delete, addressed to that last event (exactly
\* one when the pass runs to its end); and every other event with the tag gets
\* no update and no delete and is still in the calendar as it was listed.
\* This holds in the first pass and in every later one, with the alert in the
\* feed (update), skipped or gone from it (delete).
C21_OnlyLastDuplicateIsCalled ==
    \A p \in AllRuns :
        Listed(p) =>
            \A a \in Duplicated(existing[p]) :
                LET last == LastTaggedWith(existing[p], a)
                    others == {existing[p][k] : k \in TaggedWith(existing[p], a)} \ {last}
                    about == {k \in 1..Len(calls[p]) :
                                 \/ calls[p][k].alert_id = a
                                 \/ \E ev \in others \cup {last} :
                                        calls[p][k].event_id = Some(ev.id)}
                IN /\ a \in DOMAIN existing_by_alert_id[p]
                   /\ existing_by_alert_id[p][a] = last.id
                   /\ Cardinality(about) <= 1
                   /\ pc[p] = "ok" => Cardinality(about) = 1
                   /\ \A k \in about :
                         /\ calls[p][k].op \in {"update", "delete"}
                         /\ calls[p][k].alert_id = a
                         /\ calls[p][k].event_id = Some(last.id)
                   /\ others \subseteq Range(calendar)

\* C21's case: the second of two completed passes over the same feed, which
\* holds alert 1 and not alert 2.  The first pass deleted the last of the two
\* events tagged 2 and left the other, which this pass listed alone and
\* deleted; both passes listed the two events tagged 1, this one updated the
\* last of them, event 1, and event 0 is in the calendar as it always was.
C21_Witness ==
    /\ passes = 2
    /\ pc[1] = "ok"
    /\ prev.ok
    /\ prev.same
    /\ Ids(alerts[1]) = {1}
    /\ ~IsSkipped(alerts[1][1])
    /\ Duplicated(existing[1]) = {1}
    /\ DuplicateCalendar[3] \in Range(start_cal[1])
    /\ 3 \notin EventIds(start_cal[1])
    /\ \E k \in CallsOf(1, {"update"}) : calls[1][k].event_id = Some(1)
    /\ \E k \in CallsOf(1, {"delete"}) : calls[1][k].event_id = Some(2)
    /\ DuplicateCalendar[1] \in Range(calendar)
    /\ EventIds(calendar) = {0, 1}

====
